---- MODULE Spec2Model ----
(***************************************************************************)
(* The wake / capture / dispatch loop of the voice assistant               *)
(* (src/assistant): wake.listen_for_wake, audio_io.microphone_stream,      *)
(* Brain.run / Brain.run_once, tts.speak as called by the loop, the        *)
(* status reader of web.py and the start-up code of main.py.               *)
(* intents.handle_command is modelled on its own (RouterSpec): its text is  *)
(* a sequence of words and its calls of scrypted, vlm and llm are recorded. *)
(* So are audio_io.record_seconds with play_wav (AudioSpec, with the float  *)
(* product of line 53 computed as IEEE binary64 does), llm.chat with        *)
(* intents.handle_tool (ChatSpec; IntentsSpec has both entries), and        *)
(* tts.speak as called by the turn thread and by POST /say (SpeechSpec).    *)
(*                                                                         *)
(* Time is counted in whole seconds.  The code uses time.time() and         *)
(* _LAST_TRIGGER only in the difference "now - _LAST_TRIGGER", so the model *)
(* keeps that difference (since_LAST_TRIGGER), counted up to MaxElapsed.    *)
(* Exceptions are the ones the loop's "except Exception" can see;           *)
(* stream.stop() and stream.close() are taken to succeed.                   *)
(***************************************************************************)
EXTENDS Integers, Sequences, FiniteSets, TLC

\* ------------------------------------------------------------------ bounds
MaxElapsed == 2       \* now - _LAST_TRIGGER is counted up to here ("or more")
MaxTurns == 2         \* iterations of the while True loop of Brain.run
MaxQueue == 2         \* chunks waiting in the queue of microphone_stream
MaxLeaked == 1        \* streams left open with no reference to them
MaxChunks == 2        \* chunks the driver delivers in one episode
MaxWords == 4         \* words of the text given to intents.handle_command
MaxTenths == 40       \* the longest recording asked of record_seconds, in 0.1 s
MaxSays == 3          \* requests POST /say the web thread gets

\* ------------------------------------------------------ program constants
DebounceWindow == 1   \* the 1.0 of "now - _LAST_TRIGGER > 1.0"
Threshold == 75       \* threshold = 0.75, in hundredths
RecordSeconds == 4    \* seconds = 4.0 of record_seconds

\* scores (hundredths) model.predict can give a chunk; scores.get defaults to 0
Scores == {0, 75, 100}

VARIABLES
    USE_PUSH_TO_TALK,  \* config.USE_PUSH_TO_TALK
    openwakeword,      \* TRUE iff "import openwakeword" succeeded
    tts_engine,        \* TRUE iff shutil.which finds "tts" or "piper"
    pc,                \* where the turn-loop thread is
    since_LAST_TRIGGER, \* time.time() - wake._LAST_TRIGGER
    key_pressed,       \* the state of the push-to-talk key
    q,                 \* the queue of the episode's microphone_stream (empty
                       \* outside an episode: the queue is local to it)
    stream,            \* the episode's InputStream: "none", "open", "active"
    leaked,            \* InputStreams opened, never closed, no longer referenced
    produced,          \* chunks _callback has put on the episode's queue
    scored,            \* calls of model.predict in the episode
    turn,              \* number of the current iteration of Brain.run
    last_transcript,   \* brain.last_transcript, as the turn that produced it (0: None)
    last_response,     \* brain.last_response, as the turn that produced it (0: None)
    pre_turn,          \* <<last_transcript, last_response>> when the turn began
    exc,               \* the exception the turn raised, "none" if none
    fail_step,         \* the step that raised it
    apologies,         \* calls of tts.speak("Sorry, ...") in this iteration
    apology_failed,    \* TRUE iff the apology call raised
    log,               \* records handed to the logger in this iteration
    steps,             \* the steps of run_once that returned or raised in
                       \* this iteration, in that order
    triggers,          \* <<>> or <<e>>, e the last trigger event returned:
                       \* its kind, gap (the time since the one before), n
                       \* (how many were returned so far) and key (whether
                       \* the key was down when it fired)
    web_started,       \* TRUE once main started the uvicorn thread
    r_pc,              \* where the status reader is
    r_transcript,      \* the last_transcript the reader has read
    seen,              \* the <<transcript, response>> the reader last returned
    text,              \* the argument of intents.handle_command: its words
    DEVICE_IDS,        \* config.DEVICE_IDS: room -> device id
    h_pc,              \* where the call of handle_command is
    room,              \* the local "room": m.group(1).strip()
    device_id,         \* the local "device_id": what _resolve returned
    calls,             \* the calls made of scrypted, vlm and llm, in order
    response,          \* what handle_command returned, as its words
    seconds,           \* the argument of record_seconds, in tenths of a second
    samplerate,        \* its samplerate
    channels,          \* its channels
    a_pc,              \* where the call of record_seconds, then play_wav, is
    frames,            \* the local "frames" of record_seconds
    wav,               \* the WAV file written: its header fields and data size
    decoded,           \* the size of the array play_wav hands to sd.play
    status,            \* the status of the response to the POST of
                       \* scrypted.arm (0: no request made, or no response)
    reply,             \* the "response" text of the model's answer in llm.chat
    system,            \* the argument "system" of llm.chat
    payload,           \* the keys of the payload llm.chat posts
    c_pc,              \* where the call of llm.chat is
    c_result,          \* what llm.chat returned
    c_calls,           \* the functions handle_tool called, in order
    speaking,          \* where in tts.speak the turn thread and the web
                       \* thread are: "out", "run_cmd" (the engine writes
                       \* reply.wav), "play_wav" (reply.wav is played)
    reply_wav,         \* the thread whose text reply.wav holds
    says               \* requests POST /say received

env == <<USE_PUSH_TO_TALK, openwakeword, tts_engine>>
mic == <<q, stream, leaked, produced, scored>>
state == <<last_transcript, last_response>>
book == <<pre_turn, exc, fail_step, apologies, apology_failed, log, steps>>
reader == <<r_pc, r_transcript, seen>>
router == <<text, DEVICE_IDS, h_pc, room, device_id, calls, response>>
loop == <<env, pc, since_LAST_TRIGGER, key_pressed, mic, turn, state, book,
          triggers, web_started, reader>>
audio == <<seconds, samplerate, channels, a_pc, frames, wav, decoded>>
chat == <<reply, system, payload, c_pc, c_result, c_calls>>
speech == <<speaking, reply_wav, says>>
functions == <<router, audio, chat, status, speech>>
beside_router == <<loop, audio, chat, status, speech>>
beside_audio == <<loop, router, chat, status, speech>>
beside_chat == <<loop, router, audio, speech>>
beside_speech == <<router, audio, chat, status>>
vars == <<loop, functions>>

\* dict.get of a key that is absent
None == "None"

\* no call of handle_command is going on
RouterIdle ==
    /\ text = <<>>
    /\ DEVICE_IDS = <<>>
    /\ h_pc = "idle"
    /\ room = <<>>
    /\ device_id = None
    /\ calls = <<>>
    /\ response = <<>>

\* no file has been written
NoFile == [nchannels |-> 0, sampwidth |-> 0, framerate |-> 0, nbytes |-> 0]

\* no call of record_seconds or play_wav is going on
AudioIdle ==
    /\ seconds = 0
    /\ samplerate = 0
    /\ channels = 0
    /\ a_pc = "idle"
    /\ frames = 0
    /\ wav = NoFile
    /\ decoded = 0

\* the answer of a model that has not been asked
NoReply == [json |-> "none", keys |-> {}, tool |-> "none", args |-> "none"]

\* no call of llm.chat is going on
ChatIdle ==
    /\ reply = NoReply
    /\ system = None
    /\ payload = {}
    /\ c_pc = "idle"
    /\ c_result = "none"
    /\ c_calls = <<>>

\* no thread is inside tts.speak, reply.wav is not there
SpeechIdle ==
    /\ speaking = [turn |-> "out", web |-> "out"]
    /\ reply_wav = "none"
    /\ says = 0

Init ==
    /\ USE_PUSH_TO_TALK \in BOOLEAN
    /\ openwakeword \in BOOLEAN
    /\ tts_engine \in BOOLEAN
    /\ pc = "main"
    /\ since_LAST_TRIGGER = MaxElapsed
    /\ key_pressed = FALSE
    /\ q = <<>>
    /\ stream = "none"
    /\ leaked = 0
    /\ produced = 0
    /\ scored = 0
    /\ turn = 0
    /\ last_transcript = 0
    /\ last_response = 0
    /\ pre_turn = <<0, 0>>
    /\ exc = "none"
    /\ fail_step = "none"
    /\ apologies = 0
    /\ apology_failed = FALSE
    /\ log = {}
    /\ steps = <<>>
    /\ triggers = <<>>
    /\ web_started = FALSE
    /\ r_pc = "idle"
    /\ r_transcript = 0
    /\ seen = <<0, 0>>
    /\ RouterIdle
    /\ AudioIdle
    /\ ChatIdle
    /\ status = 0
    /\ SpeechIdle

\* --------------------------------------------------------------- helpers
OpenStreams == leaked + (IF stream = "none" THEN 0 ELSE 1)

\* Debounced with ">=" for the ">" of wake.py:44,47
Debounced_AtLeast(elapsed) == elapsed >= DebounceWindow

\* wake.py:44,47  "now - _LAST_TRIGGER > 1.0"
Debounced(elapsed) == elapsed > DebounceWindow

\* WakeDecision with ">=" for the ">" of "score > threshold"
WakeDecision_AtLeast(score, key, elapsed) ==
    IF score >= Threshold /\ Debounced(elapsed) THEN "wakeword"
    ELSE IF key /\ Debounced(elapsed) THEN "push_to_talk"
    ELSE "none"

\* WakeDecision with the two tests of wake.py:44 and 47 in the other order
WakeDecision_KeyFirst(score, key, elapsed) ==
    IF key /\ Debounced(elapsed) THEN "push_to_talk"
    ELSE IF score > Threshold /\ Debounced(elapsed) THEN "wakeword"
    ELSE "none"

\* wake.py:44-49: the wake word is tested first, the key only when it did not fire
WakeDecision(score, key, elapsed) ==
    IF score > Threshold /\ Debounced(elapsed) THEN "wakeword"
    ELSE IF key /\ Debounced(elapsed) THEN "push_to_talk"
    ELSE "none"

\* time moves on by d seconds
Later(d) ==
    IF since_LAST_TRIGGER + d < MaxElapsed THEN since_LAST_TRIGGER + d
    ELSE MaxElapsed

\* the trigger event listen_for_wake returns now: the time since the one
\* before it is now - _LAST_TRIGGER, _LAST_TRIGGER being the time of that one
Emit(kind) ==
    <<[kind |-> kind, gap |-> since_LAST_TRIGGER, first |-> triggers = <<>>,
       n |-> IF triggers = <<>> THEN 1 ELSE triggers[1].n + 1,
       key |-> (kind = "push_to_talk" \/ key_pressed)]>>

\* Raise with the exception caught around the step instead: it is noted and
\* run_once goes on with the step after
Raise_Continue(kind, step) ==
    /\ pc' = CASE step = "listen" -> "record"
              [] step = "record" -> "transcribe"
              [] step = "transcribe" -> "route"
              [] step = "route" -> "speak"
              [] OTHER -> "run"
    /\ exc' = kind
    /\ fail_step' = step
    /\ steps' = Append(steps, step)
    /\ UNCHANGED <<pre_turn, apologies, apology_failed, log>>

\* brain.py:35  an exception of run_once reaches the handler of Brain.run
Raise(kind, step) ==
    /\ pc' = "except"
    /\ exc' = kind
    /\ fail_step' = step
    /\ steps' = Append(steps, step)
    /\ UNCHANGED <<pre_turn, apologies, apology_failed, log>>

\* wake.py:45-46, 48-49 and the finally of 50-52: a trigger is returned
ReturnTrigger(kind) ==
    /\ since_LAST_TRIGGER' = 0
    /\ triggers' = Emit(kind)
    /\ q' = <<>>
    /\ produced' = 0
    /\ scored' = 0
    /\ stream' = "none"
    /\ steps' = Append(steps, "listen")
    /\ pc' = "record"
    /\ UNCHANGED <<functions, env, key_pressed, leaked, turn, state, pre_turn, exc,
                   fail_step, apologies, apology_failed, log, web_started,
                   reader>>

\* ------------------------------------------------------------ main.py
\* main.py:25-36  --no-wake forces push-to-talk, the web thread starts, brain.run()
Main ==
    /\ pc = "main"
    /\ \E no_wake \in BOOLEAN :
           USE_PUSH_TO_TALK' = (USE_PUSH_TO_TALK \/ no_wake)
    /\ web_started' = TRUE
    /\ pc' = "run"
    /\ UNCHANGED <<functions, openwakeword, tts_engine, since_LAST_TRIGGER,
                   key_pressed, mic, turn, state, book, triggers, reader>>

\* ------------------------------------------------------------ brain.py
\* brain.py:32-34  one more iteration of while True: try: self.run_once()
RunIterate ==
    /\ pc = "run"
    /\ turn < MaxTurns
    /\ turn' = turn + 1
    /\ pre_turn' = <<last_transcript, last_response>>
    /\ exc' = "none"
    /\ fail_step' = "none"
    /\ apologies' = 0
    /\ apology_failed' = FALSE
    /\ log' = {}
    /\ steps' = <<>>
    /\ pc' = "listen"
    /\ UNCHANGED <<functions, env, since_LAST_TRIGGER, key_pressed, mic, state, triggers,
                   web_started, reader>>

\* ------------------------------------------------------------ wake.py
\* ListenPushToTalk with the push-to-talk branch of wake.py:27-30 not taken:
\* control falls through to the wake-word path
ListenPushToTalk_FallsThrough ==
    /\ pc = "listen"
    /\ USE_PUSH_TO_TALK
    /\ pc' = "microphone_stream"
    /\ UNCHANGED <<functions, env, since_LAST_TRIGGER, key_pressed, mic, turn, state, book,
                   triggers, web_started, reader>>

\* wake.py:27-28  push-to-talk mode: block in keyboard.wait
ListenPushToTalk ==
    /\ pc = "listen"
    /\ USE_PUSH_TO_TALK
    /\ pc' = "wait_key"
    /\ UNCHANGED <<functions, env, since_LAST_TRIGGER, key_pressed, mic, turn, state, book,
                   triggers, web_started, reader>>

\* wake.py:28-30  the key goes down while keyboard.wait blocks
KeyWaitReturns ==
    /\ pc = "wait_key"
    /\ ~key_pressed
    /\ key_pressed' = TRUE
    /\ since_LAST_TRIGGER' = 0
    /\ triggers' = Emit("push_to_talk")
    /\ steps' = Append(steps, "listen")
    /\ pc' = "record"
    /\ UNCHANGED <<functions, env, mic, turn, state, pre_turn, exc, fail_step, apologies,
                   apology_failed, log, web_started, reader>>

\* wake.py:28  keyboard.wait raises (no access to the input devices)
KeyWaitFails ==
    /\ pc = "wait_key"
    /\ Raise("KeyboardError", "listen")
    /\ UNCHANGED <<functions, env, since_LAST_TRIGGER, key_pressed, mic, turn, state,
                   triggers, web_started, reader>>

\* ListenUnavailable with the test of wake.py:32 moved below line 36: the
\* stream is opened and started first
ListenUnavailable_AfterOpen ==
    /\ pc = "listen"
    /\ ~USE_PUSH_TO_TALK
    /\ ~openwakeword
    /\ stream' = "active"
    /\ Raise("DetectorUnavailable", "listen")
    /\ UNCHANGED <<functions, env, since_LAST_TRIGGER, key_pressed, q, leaked, produced, scored, turn,
                   state,
                   triggers, web_started, reader>>

\* wake.py:32-33  wake-word mode without openwakeword: raise at once
ListenUnavailable ==
    /\ pc = "listen"
    /\ ~USE_PUSH_TO_TALK
    /\ ~openwakeword
    /\ Raise("DetectorUnavailable", "listen")
    /\ UNCHANGED <<functions, env, since_LAST_TRIGGER, key_pressed, mic, turn, state,
                   triggers, web_started, reader>>

\* wake.py:35  openwakeword.Model(...) is built
ModelCreated ==
    /\ pc = "listen"
    /\ ~USE_PUSH_TO_TALK
    /\ openwakeword
    /\ pc' = "microphone_stream"
    /\ UNCHANGED <<functions, env, since_LAST_TRIGGER, key_pressed, mic, turn, state, book,
                   triggers, web_started, reader>>

\* wake.py:35  openwakeword.Model(...) raises
ModelFails ==
    /\ pc = "listen"
    /\ ~USE_PUSH_TO_TALK
    /\ openwakeword
    /\ Raise("ModelError", "listen")
    /\ UNCHANGED <<functions, env, since_LAST_TRIGGER, key_pressed, mic, turn, state,
                   triggers, web_started, reader>>

\* audio_io.py:31-40  a fresh queue, and sd.InputStream(...) opens the device
OpenStream ==
    /\ pc = "microphone_stream"
    /\ q' = <<>>
    /\ produced' = 0
    /\ scored' = 0
    /\ stream' = "open"
    /\ pc' = "stream_start"
    /\ UNCHANGED <<functions, env, since_LAST_TRIGGER, key_pressed, leaked, turn, state,
                   book, triggers, web_started, reader>>

\* audio_io.py:38-40  sd.InputStream(...) raises: nothing was opened
OpenStreamFails ==
    /\ pc = "microphone_stream"
    /\ q' = <<>>
    /\ produced' = 0
    /\ scored' = 0
    /\ Raise("DeviceUnavailable", "listen")
    /\ UNCHANGED <<functions, env, since_LAST_TRIGGER, key_pressed, stream, leaked, turn,
                   state, triggers, web_started, reader>>

\* audio_io.py:41-42, wake.py:36-38  stream.start() succeeds, the try block is entered
StartStream ==
    /\ pc = "stream_start"
    /\ stream' = "active"
    /\ pc' = "q_get"
    /\ UNCHANGED <<functions, env, since_LAST_TRIGGER, key_pressed, q, leaked, produced, scored, turn,
                   state,
                   book, triggers, web_started, reader>>

\* audio_io.py:41  stream.start() raises: microphone_stream is left with the
\* stream open, and wake.py's try/finally (38-52) has not been entered
StartStreamFails ==
    /\ pc = "stream_start"
    /\ leaked < MaxLeaked
    /\ leaked' = leaked + 1
    /\ stream' = "none"
    /\ Raise("DeviceUnavailable", "listen")
    /\ UNCHANGED <<functions, env, since_LAST_TRIGGER, key_pressed, q, produced, scored, turn, state,
                   triggers, web_started, reader>>

\* Callback with the chunk not put on the queue
Callback_Drops ==
    /\ stream = "active"
    /\ Len(q) < MaxQueue
    /\ produced < MaxChunks
    /\ produced' = produced + 1
    /\ UNCHANGED <<functions, env, pc, since_LAST_TRIGGER, key_pressed, q, stream, leaked,
                   scored, turn, state, book, triggers, web_started, reader>>

\* audio_io.py:33-36  the driver calls _callback while the stream runs
Callback ==
    /\ stream = "active"
    /\ Len(q) < MaxQueue
    /\ produced < MaxChunks
    /\ \E s \in Scores : q' = Append(q, s)
    /\ produced' = produced + 1
    /\ UNCHANGED <<functions, env, pc, since_LAST_TRIGGER, key_pressed, stream, leaked, scored,
                   turn, state, book, triggers, web_started, reader>>

\* wake.py:40-46, 50-52  a chunk is taken, the wake word fires
WakeWordFires ==
    /\ pc = "q_get"
    /\ q # <<>>
    /\ WakeDecision(Head(q), key_pressed, since_LAST_TRIGGER) = "wakeword"
    /\ ReturnTrigger("wakeword")

\* wake.py:40-49, 50-52  a chunk is taken, the key fires
PushToTalkFires ==
    /\ pc = "q_get"
    /\ q # <<>>
    /\ WakeDecision(Head(q), key_pressed, since_LAST_TRIGGER) = "push_to_talk"
    /\ ReturnTrigger("push_to_talk")

\* NoTrigger with the chunk read but left at the head of the queue
NoTrigger_Peek ==
    /\ pc = "q_get"
    /\ q # <<>>
    /\ WakeDecision(Head(q), key_pressed, since_LAST_TRIGGER) = "none"
    /\ scored < MaxChunks
    /\ scored' = scored + 1
    /\ UNCHANGED <<functions, env, pc, since_LAST_TRIGGER, key_pressed, q, stream, leaked,
                   produced, turn, state, book, triggers, web_started, reader>>

\* NoTrigger with "_LAST_TRIGGER = now" done in every iteration
NoTrigger_Stamps ==
    /\ pc = "q_get"
    /\ q # <<>>
    /\ WakeDecision(Head(q), key_pressed, since_LAST_TRIGGER) = "none"
    /\ q' = Tail(q)
    /\ scored' = scored + 1
    /\ since_LAST_TRIGGER' = 0
    /\ UNCHANGED <<functions, env, pc, key_pressed, stream, leaked, produced,
                   turn, state, book, triggers, web_started, reader>>

\* wake.py:39-49  a chunk is taken, nothing fires, the loop goes on
NoTrigger ==
    /\ pc = "q_get"
    /\ q # <<>>
    /\ WakeDecision(Head(q), key_pressed, since_LAST_TRIGGER) = "none"
    /\ q' = Tail(q)
    /\ scored' = scored + 1
    /\ UNCHANGED <<functions, env, pc, since_LAST_TRIGGER, key_pressed, stream, leaked, produced,
                   turn, state, book, triggers, web_started, reader>>

\* wake.py:41, 50-52  model.predict raises; the finally stops and closes
PredictFails ==
    /\ pc = "q_get"
    /\ q # <<>>
    /\ q' = <<>>
    /\ produced' = 0
    /\ scored' = 0
    /\ stream' = "none"
    /\ Raise("ScoreError", "listen")
    /\ UNCHANGED <<functions, env, since_LAST_TRIGGER, key_pressed, leaked, turn, state,
                   triggers, web_started, reader>>

\* wake.py:47, 50-52  keyboard.is_pressed raises (it is reached only when the
\* wake word did not fire); the finally stops and closes
IsPressedFails ==
    /\ pc = "q_get"
    /\ q # <<>>
    /\ ~(Head(q) > Threshold /\ Debounced(since_LAST_TRIGGER))
    /\ q' = <<>>
    /\ produced' = 0
    /\ scored' = 0
    /\ stream' = "none"
    /\ Raise("KeyboardError", "listen")
    /\ UNCHANGED <<functions, env, since_LAST_TRIGGER, key_pressed, leaked, turn, state,
                   triggers, web_started, reader>>

\* ------------------------------------------------- brain.py: run_once
\* RecordOk with the call of stt.transcribe (brain.py:25) skipped
RecordOk_SkipsTranscribe ==
    /\ pc = "record"
    /\ since_LAST_TRIGGER' = Later(RecordSeconds)
    /\ log' = log \cup {"recorded"}
    /\ steps' = Append(steps, "record")
    /\ pc' = "route"
    /\ UNCHANGED <<functions, env, key_pressed, mic, turn, state, pre_turn,
                   exc, fail_step, apologies, apology_failed, triggers,
                   web_started, reader>>

\* brain.py:23-24  record_seconds blocks for its duration and returns the path
RecordOk ==
    /\ pc = "record"
    /\ since_LAST_TRIGGER' = Later(RecordSeconds)
    /\ log' = log \cup {"recorded"}
    /\ steps' = Append(steps, "record")
    /\ pc' = "transcribe"
    /\ UNCHANGED <<functions, env, key_pressed, mic, turn, state, pre_turn,
                   exc, fail_step, apologies, apology_failed, triggers,
                   web_started, reader>>

\* brain.py:23  record_seconds raises
RecordFails ==
    /\ pc = "record"
    /\ Raise("DeviceUnavailable", "record")
    /\ UNCHANGED <<functions, env, since_LAST_TRIGGER, key_pressed, mic, turn, state,
                   triggers, web_started, reader>>

\* TranscribeOk with the transcript kept in a local: the global of
\* brain.py:21 is not assigned
TranscribeOk_Local ==
    /\ pc = "transcribe"
    /\ log' = log \cup {"transcript"}
    /\ steps' = Append(steps, "transcribe")
    /\ pc' = "route"
    /\ UNCHANGED <<functions, env, since_LAST_TRIGGER, key_pressed, mic, turn, state,
                   pre_turn, exc, fail_step, apologies, apology_failed,
                   triggers, web_started, reader>>

\* brain.py:25-26  last_transcript = stt.transcribe(...)
TranscribeOk ==
    /\ pc = "transcribe"
    /\ last_transcript' = turn
    /\ log' = log \cup {"transcript"}
    /\ steps' = Append(steps, "transcribe")
    /\ pc' = "route"
    /\ UNCHANGED <<functions, env, since_LAST_TRIGGER, key_pressed, mic, turn,
                   last_response, pre_turn, exc, fail_step, apologies,
                   apology_failed, triggers, web_started, reader>>

\* brain.py:25  stt.transcribe raises: the assignment does not happen
TranscribeFails ==
    /\ pc = "transcribe"
    /\ Raise("TranscriptionError", "transcribe")
    /\ UNCHANGED <<functions, env, since_LAST_TRIGGER, key_pressed, mic, turn, state,
                   triggers, web_started, reader>>

\* brain.py:27-28  last_response = intents.handle_command(last_transcript)
RouteOk ==
    /\ pc = "route"
    /\ last_response' = last_transcript
    /\ log' = log \cup {"response"}
    /\ steps' = Append(steps, "route")
    /\ pc' = "speak"
    /\ UNCHANGED <<functions, env, since_LAST_TRIGGER, key_pressed, mic, turn,
                   last_transcript, pre_turn, exc, fail_step, apologies,
                   apology_failed, triggers, web_started, reader>>

\* brain.py:27  intents.handle_command raises: the assignment does not happen
RouteFails ==
    /\ pc = "route"
    /\ Raise("RoutingError", "route")
    /\ UNCHANGED <<functions, env, since_LAST_TRIGGER, key_pressed, mic, turn, state,
                   triggers, web_started, reader>>

\* brain.py:29, tts.py:22-30  an engine is found, runs and the reply is played
SpeakOk ==
    /\ pc = "speak"
    /\ tts_engine
    /\ steps' = Append(steps, "speak")
    /\ pc' = "run"
    /\ UNCHANGED <<functions, env, since_LAST_TRIGGER, key_pressed, mic, turn, state,
                   pre_turn, exc, fail_step, apologies, apology_failed, log,
                   triggers, web_started, reader>>

\* brain.py:29, tts.py:23-29  no engine (tts.py:28), or the engine or the
\* playback raises
SpeakFails ==
    /\ pc = "speak"
    /\ Raise("SynthesisError", "speak")
    /\ UNCHANGED <<functions, env, since_LAST_TRIGGER, key_pressed, mic, turn, state,
                   triggers, web_started, reader>>

\* --------------------------------------- brain.py: the handler of run
\* ExceptionLog with the logger.exception call of brain.py:36 left out
ExceptionLog_Silent == {}

\* brain.py:36  logger.exception(...) writes the record of the turn failure
ExceptionLog == {"error"}

\* brain.py:39-40  "except Exception: pass" writes nothing
ApologyFailureLog == {}

\* AfterApologyFailure without the inner try/except of brain.py:37-40: the
\* apology's exception leaves Brain.run
AfterApologyFailure_Propagates == "crashed"

\* AfterApologyFailure with the apology tried again after it failed
AfterApologyFailure_Retry == "apology"

\* brain.py:39-40, 32  the apology's exception is dropped: back to while True
AfterApologyFailure == "run"

\* brain.py:35-36  the exception is caught and logged
HandleException ==
    /\ pc = "except"
    /\ log' = log \cup ExceptionLog
    /\ pc' = "apology"
    /\ UNCHANGED <<functions, env, since_LAST_TRIGGER, key_pressed, mic, turn, state,
                   pre_turn, exc, fail_step, apologies, apology_failed, steps,
                   triggers, web_started, reader>>

\* brain.py:37-38  tts.speak("Sorry, something went wrong") returns
ApologyOk ==
    /\ pc = "apology"
    /\ tts_engine
    /\ apologies' = IF apologies < 2 THEN apologies + 1 ELSE apologies
    /\ pc' = "run"
    /\ UNCHANGED <<functions, env, since_LAST_TRIGGER, key_pressed, mic, turn, state,
                   pre_turn, exc, fail_step, apology_failed, log, steps, triggers,
                   web_started, reader>>

\* brain.py:37-40  the apology raises too
ApologyFails ==
    /\ pc = "apology"
    /\ apologies' = IF apologies < 2 THEN apologies + 1 ELSE apologies
    /\ apology_failed' = TRUE
    /\ log' = log \cup ApologyFailureLog
    /\ pc' = AfterApologyFailure
    /\ UNCHANGED <<functions, env, since_LAST_TRIGGER, key_pressed, mic, turn, state,
                   pre_turn, exc, fail_step, steps, triggers, web_started, reader>>

\* ------------------------------------------------------------ environment
\* time passes
Tick ==
    /\ since_LAST_TRIGGER < MaxElapsed
    /\ since_LAST_TRIGGER' = Later(1)
    /\ UNCHANGED <<functions, env, pc, key_pressed, mic, turn, state, book,
                   triggers, web_started, reader>>

\* the key goes down while nobody waits for it in keyboard.wait
KeyPress ==
    /\ pc # "wait_key"
    /\ ~key_pressed
    /\ key_pressed' = TRUE
    /\ UNCHANGED <<functions, env, pc, since_LAST_TRIGGER, mic, turn, state, book,
                   triggers, web_started, reader>>

KeyRelease ==
    /\ key_pressed
    /\ key_pressed' = FALSE
    /\ UNCHANGED <<functions, env, pc, since_LAST_TRIGGER, mic, turn, state, book,
                   triggers, web_started, reader>>

\* ------------------------------------------------------------ web.py
\* web.py:37  the handler of /status reads brain.last_transcript
ReadTranscript ==
    /\ web_started
    /\ r_pc = "idle"
    /\ r_transcript' = last_transcript
    /\ seen' = <<0, 0>>
    /\ r_pc' = "mid"
    /\ UNCHANGED <<functions, env, pc, since_LAST_TRIGGER, key_pressed, mic, turn, state,
                   book, triggers, web_started>>

\* web.py:38  ... then brain.last_response, and returns the two
ReadResponse ==
    /\ r_pc = "mid"
    /\ seen' = <<r_transcript, last_response>>
    /\ r_transcript' = 0
    /\ r_pc' = "idle"
    /\ UNCHANGED <<functions, env, pc, since_LAST_TRIGGER, key_pressed, mic, turn, state,
                   book, triggers, web_started>>

\* ----------------------------------------------------------- intents.py
\* The text is a sequence of words joined by single spaces.  re.search finds
\* a pattern anywhere in the string, so the literal "arm " is also found at
\* the end of "disarm ".
Words == {"describe", "Describe", "arm", "disarm", "camera", "kitchen", "Kitchen"}

\* words that end in the literal "describe", "arm"; words that begin "camera"
DescribeWords == {"describe"}
ArmWords == {"arm", "disarm"}
CameraWords == {"camera"}

Texts == UNION {[1..n -> Words] : n \in 0..MaxWords}

\* the values config.DEVICE_IDS is given: {} as in config.py:24, a room with
\* a device id, a room with an empty id, a key that is not lower case
DeviceMaps ==
    { <<>>,
      [r \in {<<"kitchen">>} |-> "cam1"],
      [r \in {<<"kitchen">>} |-> ""],
      [r \in {<<"Kitchen">>} |-> "cam1"] }

\* str.lower, of a word and of a text
Lower(w) ==
    CASE w = "Describe" -> "describe"
      [] w = "Kitchen" -> "kitchen"
      [] OTHER -> w

Lowered(t) == [i \in 1..Len(t) |-> Lower(t[i])]

SetMin(S) == CHOOSE x \in S : \A y \in S : x <= y

\* re.search(r"<verb> (.+?) camera", t): the leftmost place where the verb is
\* followed by at least one word and then "camera"; the group is the shortest
\* run of words that gets to a "camera"
Search(t, verbs) ==
    LET ends(i) == {j \in (i + 2)..Len(t) : t[j] \in CameraWords}
        starts == {i \in 1..Len(t) : t[i] \in verbs /\ ends(i) # {}}
    IN  IF starts = {}
        THEN [found |-> FALSE, group |-> <<>>]
        ELSE LET i == SetMin(starts)
             IN  [found |-> TRUE, group |-> SubSeq(t, i + 1, SetMin(ends(i)) - 1)]

\* Dispatch with the arm pattern tested before the describe pattern
Dispatch_ArmFirst(t) ==
    IF Search(Lowered(t), ArmWords).found THEN "arm"
    ELSE IF Search(Lowered(t), DescribeWords).found THEN "describe"
    ELSE "chat"

\* intents.py:15-33  which of the three branches handle_command takes
Dispatch(t) ==
    IF Search(Lowered(t), DescribeWords).found THEN "describe"
    ELSE IF Search(Lowered(t), ArmWords).found THEN "arm"
    ELSE "chat"

\* intents.py:9-10  config.DEVICE_IDS.get(room.lower())
Resolve(r) ==
    IF Lowered(r) \in DOMAIN DEVICE_IDS THEN DEVICE_IDS[Lowered(r)] ELSE None

\* "not device_id"
Falsy(d) == d \in {None, ""}

Call(fn, arg) == calls' = Append(calls, [fn |-> fn, arg |-> arg])

\* the statuses the Scrypted server answers the POST with; 0: no answer (no
\* token configured, scrypted.py:10-11, or no connection)
Statuses == {0, 200, 204, 401, 404, 500}

\* ArmOutcome with every error status answered by False
ArmOutcome_ErrorIsFalse(st) ==
    IF st = 0 THEN "raise"
    ELSE IF st >= 400 THEN "False"
    ELSE "True"

\* scrypted.py:38-42  what arm does with the response: requests'
\* raise_for_status raises for the statuses 400 to 599
ArmOutcome(st) ==
    IF st = 0 THEN "raise"
    ELSE IF st = 404 THEN "False"
    ELSE IF st >= 400 /\ st < 600 THEN "raise"
    ELSE "True"

\* intents.py:31, 51  "Armed" if scrypted.arm(device_id) else "Unable to arm"
ArmReply(armed) == IF armed = "True" THEN "Armed" ELSE "Unable to arm"

\* intents.py:16-19  the describe pattern matches
DescribeMatch ==
    /\ h_pc = "handle_command"
    /\ Dispatch(text) = "describe"
    /\ room' = Search(Lowered(text), DescribeWords).group
    /\ device_id' = Resolve(room')
    /\ h_pc' = "describe"
    /\ UNCHANGED <<beside_router, text, DEVICE_IDS, calls, response>>

\* intents.py:25-28  it does not, the arm pattern does
ArmMatch ==
    /\ h_pc = "handle_command"
    /\ Dispatch(text) = "arm"
    /\ room' = Search(Lowered(text), ArmWords).group
    /\ device_id' = Resolve(room')
    /\ h_pc' = "arm"
    /\ UNCHANGED <<beside_router, text, DEVICE_IDS, calls, response>>

\* intents.py:33  neither does
NoMatch ==
    /\ h_pc = "handle_command"
    /\ Dispatch(text) = "chat"
    /\ h_pc' = "chat"
    /\ UNCHANGED <<beside_router, text, DEVICE_IDS, room, device_id, calls, response>>

\* UnknownDevice with DEVICE_IDS[room] for DEVICE_IDS.get(room): KeyError
UnknownDevice_KeyError ==
    /\ h_pc \in {"describe", "arm"}
    /\ Falsy(device_id)
    /\ h_pc' = IF device_id = None THEN "raised" ELSE "returned"
    /\ response' = IF device_id = None THEN <<>>
                   ELSE <<"Unknown device for">> \o room
    /\ UNCHANGED <<beside_router, text, DEVICE_IDS, room, device_id, calls>>

\* intents.py:20-21, 29-30  return f"Unknown device for {room}"
UnknownDevice ==
    /\ h_pc \in {"describe", "arm"}
    /\ Falsy(device_id)
    /\ response' = <<"Unknown device for">> \o room
    /\ h_pc' = "returned"
    /\ UNCHANGED <<beside_router, text, DEVICE_IDS, room, device_id, calls>>

\* intents.py:22  scrypted.snapshot(device_id) returns the image
SnapshotOk ==
    /\ h_pc = "describe"
    /\ ~Falsy(device_id)
    /\ Call("scrypted.snapshot", <<device_id>>)
    /\ h_pc' = "analyze_image"
    /\ UNCHANGED <<beside_router, text, DEVICE_IDS, room, device_id, response>>

\* scrypted.py:21-26  no token, no connection or raise_for_status
SnapshotFails ==
    /\ h_pc = "describe"
    /\ ~Falsy(device_id)
    /\ Call("scrypted.snapshot", <<device_id>>)
    /\ h_pc' = "raised"
    /\ UNCHANGED <<beside_router, text, DEVICE_IDS, room, device_id, response>>

\* intents.py:23  return vlm.analyze_image(f"Describe the {room} camera", image)
AnalyzeOk ==
    /\ h_pc = "analyze_image"
    /\ Call("vlm.analyze_image", <<"Describe the">> \o room \o <<"camera">>)
    /\ response' = <<"description">>
    /\ h_pc' = "returned"
    /\ UNCHANGED <<beside_router, text, DEVICE_IDS, room, device_id>>

\* vlm.py:23-24  no connection or raise_for_status
AnalyzeFails ==
    /\ h_pc = "analyze_image"
    /\ Call("vlm.analyze_image", <<"Describe the">> \o room \o <<"camera">>)
    /\ h_pc' = "raised"
    /\ UNCHANGED <<beside_router, text, DEVICE_IDS, room, device_id, response>>

\* intents.py:31, scrypted.py:42  arm returns True
ArmOk ==
    /\ h_pc = "arm"
    /\ ~Falsy(device_id)
    /\ Call("scrypted.arm", <<device_id>>)
    /\ \E st \in Statuses :
           /\ ArmOutcome(st) = "True"
           /\ status' = st
           /\ response' = <<ArmReply(ArmOutcome(st))>>
    /\ h_pc' = "returned"
    /\ UNCHANGED <<loop, audio, chat, speech, text, DEVICE_IDS, room, device_id>>

\* intents.py:31, scrypted.py:39-40  status 404: arm returns False
ArmNotFound ==
    /\ h_pc = "arm"
    /\ ~Falsy(device_id)
    /\ Call("scrypted.arm", <<device_id>>)
    /\ \E st \in Statuses :
           /\ ArmOutcome(st) = "False"
           /\ status' = st
           /\ response' = <<ArmReply(ArmOutcome(st))>>
    /\ h_pc' = "returned"
    /\ UNCHANGED <<loop, audio, chat, speech, text, DEVICE_IDS, room, device_id>>

\* scrypted.py:37-41  no token, no connection or raise_for_status
ArmFails ==
    /\ h_pc = "arm"
    /\ ~Falsy(device_id)
    /\ Call("scrypted.arm", <<device_id>>)
    /\ \E st \in Statuses :
           /\ ArmOutcome(st) = "raise"
           /\ status' = st
    /\ h_pc' = "raised"
    /\ UNCHANGED <<loop, audio, chat, speech, text, DEVICE_IDS, room, device_id, response>>

\* intents.py:33  return llm.chat(text): the text as given, not lowered
ChatOk ==
    /\ h_pc = "chat"
    /\ Call("llm.chat", text)
    /\ response' = <<"reply">>
    /\ h_pc' = "returned"
    /\ UNCHANGED <<beside_router, text, DEVICE_IDS, room, device_id>>

\* llm.py:17-37  the call raises
ChatFails ==
    /\ h_pc = "chat"
    /\ Call("llm.chat", text)
    /\ h_pc' = "raised"
    /\ UNCHANGED <<beside_router, text, DEVICE_IDS, room, device_id, response>>

\* --------------------------------------------- llm.py, intents.handle_tool
\* What the model can answer.  json is what json.loads makes of the text:
\* "invalid" (JSONDecodeError: plain text, or no "response" at all), a JSON
\* value that is not an object, or "dict"; for an object, keys says which of
\* "tool" and "args" it has, tool is block["tool"] and args says what
\* block["args"] is.
Tools == {"scrypted.snapshot", "scrypted.arm", "other"}
ArgKinds == {"device_id", "empty device_id", "no device_id", "not a dict"}

Replies ==
    {[json |-> j, keys |-> {}, tool |-> "none", args |-> "none"] :
         j \in {"invalid", "string", "number", "list", "null"}}
    \cup
    {r \in [json : {"dict"}, keys : SUBSET {"tool", "args"},
            tool : Tools \cup {"none"}, args : ArgKinds \cup {"none"}] :
         /\ (r.tool = "none") <=> ("tool" \notin r.keys)
         /\ (r.args = "none") <=> ("args" \notin r.keys)}

Systems == {None, "", "be brief"}

\* llm.py:25-27  the payload has "system" only for a system text that is true
PayloadOf(sys) ==
    {"model", "prompt"} \cup (IF sys \in {None, ""} THEN {} ELSE {"system"})

\* llm.py:31-36  json.loads succeeded, isinstance(block, dict), "tool" in block
Routed(r) == r.json = "dict" /\ "tool" \in r.keys

\* llm.py:28-30  the POST is answered
ChatPost ==
    /\ c_pc = "chat"
    /\ payload' = PayloadOf(system)
    /\ c_pc' = "posted"
    /\ UNCHANGED <<beside_chat, status, reply, system, c_result, c_calls>>

\* llm.py:28-29  no connection, or raise_for_status
ChatPostFails ==
    /\ c_pc = "chat"
    /\ payload' = PayloadOf(system)
    /\ c_pc' = "raised"
    /\ UNCHANGED <<beside_chat, status, reply, system, c_result, c_calls>>

\* llm.py:33-34, 37  return text
ChatReturnsText ==
    /\ c_pc = "posted"
    /\ ~Routed(reply)
    /\ c_result' = "text"
    /\ c_pc' = "returned"
    /\ UNCHANGED <<beside_chat, status, reply, system, payload, c_calls>>

\* llm.py:35-36, 10-14  return _route_tool(block)
ChatRoutesTool ==
    /\ c_pc = "posted"
    /\ Routed(reply)
    /\ c_pc' = "handle_tool"
    /\ UNCHANGED <<beside_chat, status, reply, system, payload, c_result, c_calls>>

\* the tool is one of the two handle_tool knows
KnownTool == reply.tool \in {"scrypted.snapshot", "scrypted.arm"}

ToolCall(fn) == c_calls' = Append(c_calls, fn)

\* intents.py:52  return "Unknown tool"
ToolUnknown ==
    /\ c_pc = "handle_tool"
    /\ ~KnownTool
    /\ c_result' = "Unknown tool"
    /\ c_pc' = "returned"
    /\ UNCHANGED <<beside_chat, status, reply, system, payload, c_calls>>

\* intents.py:41, 48  args.get on a value that is not a dict: AttributeError
ToolArgsError ==
    /\ c_pc = "handle_tool"
    /\ KnownTool
    /\ reply.args = "not a dict"
    /\ c_pc' = "raised"
    /\ UNCHANGED <<beside_chat, status, reply, system, payload, c_result, c_calls>>

\* intents.py:39, 41-43, 48-50  no args, or no device_id in them, or an empty one
ToolNoDevice ==
    /\ c_pc = "handle_tool"
    /\ KnownTool
    /\ reply.args \in {"none", "no device_id", "empty device_id"}
    /\ c_result' = "device_id missing"
    /\ c_pc' = "returned"
    /\ UNCHANGED <<beside_chat, status, reply, system, payload, c_calls>>

\* intents.py:44  scrypted.snapshot(device_id)
ToolSnapshotOk ==
    /\ c_pc = "handle_tool"
    /\ reply.tool = "scrypted.snapshot"
    /\ reply.args = "device_id"
    /\ ToolCall("scrypted.snapshot")
    /\ c_pc' = "tool_analyze"
    /\ UNCHANGED <<beside_chat, status, reply, system, payload, c_result>>

\* scrypted.py:21-26  it raises
ToolSnapshotFails ==
    /\ c_pc = "handle_tool"
    /\ reply.tool = "scrypted.snapshot"
    /\ reply.args = "device_id"
    /\ ToolCall("scrypted.snapshot")
    /\ c_pc' = "raised"
    /\ UNCHANGED <<beside_chat, status, reply, system, payload, c_result>>

\* intents.py:45-46  return vlm.analyze_image(prompt, image)
ToolAnalyzeOk ==
    /\ c_pc = "tool_analyze"
    /\ ToolCall("vlm.analyze_image")
    /\ c_result' = "description"
    /\ c_pc' = "returned"
    /\ UNCHANGED <<beside_chat, status, reply, system, payload>>

\* vlm.py:23-24  it raises
ToolAnalyzeFails ==
    /\ c_pc = "tool_analyze"
    /\ ToolCall("vlm.analyze_image")
    /\ c_pc' = "raised"
    /\ UNCHANGED <<beside_chat, status, reply, system, payload, c_result>>

\* intents.py:51  scrypted.arm(device_id) returns: "Armed" or "Unable to arm"
ToolArmReturns ==
    /\ c_pc = "handle_tool"
    /\ reply.tool = "scrypted.arm"
    /\ reply.args = "device_id"
    /\ ToolCall("scrypted.arm")
    /\ \E st \in Statuses :
           /\ ArmOutcome(st) # "raise"
           /\ status' = st
           /\ c_result' = ArmReply(ArmOutcome(st))
    /\ c_pc' = "returned"
    /\ UNCHANGED <<beside_chat, reply, system, payload>>

\* scrypted.py:37-41  it raises
ToolArmFails ==
    /\ c_pc = "handle_tool"
    /\ reply.tool = "scrypted.arm"
    /\ reply.args = "device_id"
    /\ ToolCall("scrypted.arm")
    /\ \E st \in Statuses :
           /\ ArmOutcome(st) = "raise"
           /\ status' = st
    /\ c_pc' = "raised"
    /\ UNCHANGED <<beside_chat, reply, system, payload, c_result>>

\* ---------------------------------------------------------- audio_io.py
\* the sample rates record_seconds is called with
SampleRates == {8000, 16000, 22050, 44100, 48000}

RECURSIVE Pow2(_)
Pow2(e) == IF e = 0 THEN 1 ELSE 2 * Pow2(e - 1)

\* Python's float (IEEE 754 binary64, 53 bits of mantissa, round to nearest
\* even) of the decimal n/10.  With 2^(e-4) <= n/10 < 2^(e-3) the mantissa
\* is the integer nearest to n * 2^k / 10 for k = 56 - e, so
\*     float(n/10) = n/10 - r / (10 * 2^k)
\* where r is the remainder of n * 2^k modulo 10, taken in -4..5.
BinadeOf(n) == CHOOSE e \in 0..12 : 10 * Pow2(e) <= 16 * n /\ 16 * n < 10 * Pow2(e + 1)

Pow2Mod10(k) == CASE k % 4 = 1 -> 2 [] k % 4 = 2 -> 4 [] k % 4 = 3 -> 8 [] OTHER -> 6

ReprError(n) ==
    LET m == (n * Pow2Mod10(56 - BinadeOf(n))) % 10
    IN  IF m <= 5 THEN m ELSE m - 10

\* audio_io.py:53  int(seconds * samplerate) for seconds = n/10.  The exact
\* product of float(n/10) and the rate is n*rate/10 - r*rate/(10 * 2^k); the
\* float product is the double nearest to it and int() drops its fraction.
\* When n*rate/10 is a whole number N in (2^b, 2^(b+1)], the doubles just
\* below N are 2^(b-52) apart, so the product is a double below N, and int()
\* gives N - 1, exactly when r*rate/(10 * 2^k) > 2^(b-53), that is when
\* r * rate * 2^(e+1) > 160 * 2^b.
IntOfProduct(n, rate) ==
    LET N == (n * rate) \div 10
        e == BinadeOf(n)
        b == CHOOSE x \in 0..24 : Pow2(x) < N /\ N <= Pow2(x + 1)
    IN  IF (n * rate) % 10 # 0 THEN N
        ELSE IF ReprError(n) > 0
                /\ ReprError(n) * rate * Pow2(e + 1) > 160 * Pow2(b)
        THEN N - 1
        ELSE N

\* audio_io.py:53-55  frames = int(seconds * samplerate); sd.rec; sd.wait
RecReturns ==
    /\ a_pc = "record_seconds"
    /\ frames' = IntOfProduct(seconds, samplerate)
    /\ a_pc' = "wave_write"
    /\ UNCHANGED <<beside_audio, seconds, samplerate, channels, wav, decoded>>

\* audio_io.py:54-55  no input device: sd.rec raises
RecFails ==
    /\ a_pc = "record_seconds"
    /\ frames' = IntOfProduct(seconds, samplerate)
    /\ a_pc' = "raised"
    /\ UNCHANGED <<beside_audio, seconds, samplerate, channels, wav, decoded>>

\* audio_io.py:57-66  the data, frames rows of channels samples, go to the
\* file as int16
WriteWav ==
    /\ a_pc = "wave_write"
    /\ wav' = [nchannels |-> channels, sampwidth |-> 2, framerate |-> samplerate,
               nbytes |-> frames * channels * 2]
    /\ a_pc' = "play_wav"
    /\ UNCHANGED <<beside_audio, seconds, samplerate, channels, frames, decoded>>

\* audio_io.py:71-74  readframes(getnframes()), np.frombuffer(.., int16)
PlayWav ==
    /\ a_pc = "play_wav"
    /\ LET nframes == wav.nbytes \div (wav.nchannels * wav.sampwidth)
           data == nframes * wav.nchannels * wav.sampwidth
       IN  decoded' = data \div 2
    /\ a_pc' = "played"
    /\ UNCHANGED <<beside_audio, seconds, samplerate, channels, frames, wav>>

\* ------------------------------------- tts.py as called from two threads
\* tts.speak has no lock: the turn thread (brain.py:29, 38) and the web
\* thread (web.py:45) each go through it in their own time.

\* tts.py:22-26  the turn thread calls speak, an engine is found and started
SpeakEnters ==
    /\ pc \in {"speak", "apology"}
    /\ speaking.turn = "out"
    /\ tts_engine
    /\ speaking' = [speaking EXCEPT !.turn = "run_cmd"]
    /\ UNCHANGED <<beside_speech, loop, reply_wav, says>>

\* tts.py:24, 26  the engine has written reply.wav; tts.py:29 play_wav begins
SpeakWritten ==
    /\ speaking.turn = "run_cmd"
    /\ reply_wav' = "turn"
    /\ speaking' = [speaking EXCEPT !.turn = "play_wav"]
    /\ UNCHANGED <<beside_speech, loop, says>>

\* tts.py:29-30, brain.py:29, 38  the playback is over, speak returns
SpeakPlayed ==
    /\ speaking.turn = "play_wav"
    /\ speaking' = [speaking EXCEPT !.turn = "out"]
    /\ IF pc = "speak"
       THEN /\ steps' = Append(steps, "speak")
            /\ UNCHANGED apologies
       ELSE /\ apologies' = IF apologies < 2 THEN apologies + 1 ELSE apologies
            /\ UNCHANGED steps
    /\ pc' = "run"
    /\ UNCHANGED <<beside_speech, env, since_LAST_TRIGGER, key_pressed, mic, turn,
                   state, pre_turn, exc, fail_step, apology_failed, log,
                   triggers, web_started, reader, reply_wav, says>>

\* tts.py:24-29  the engine or the playback raises: to the handler of the
\* turn (brain.py:35), or dropped if it was the apology (brain.py:39-40)
SpeakRaises ==
    /\ speaking.turn \in {"run_cmd", "play_wav"}
    /\ speaking' = [speaking EXCEPT !.turn = "out"]
    /\ IF pc = "speak"
       THEN Raise("SynthesisError", "speak")
       ELSE /\ apologies' = IF apologies < 2 THEN apologies + 1 ELSE apologies
            /\ apology_failed' = TRUE
            /\ log' = log \cup ApologyFailureLog
            /\ pc' = AfterApologyFailure
            /\ UNCHANGED <<pre_turn, exc, fail_step, steps>>
    /\ UNCHANGED <<beside_speech, env, since_LAST_TRIGGER, key_pressed, mic, turn,
                   state, triggers, web_started, reader, reply_wav, says>>

\* web.py:43-45, tts.py:22-26  POST /say: the handler calls speak
SayEnters ==
    /\ web_started
    /\ speaking.web = "out"
    /\ says < MaxSays
    /\ says' = says + 1
    /\ speaking' = [speaking EXCEPT !.web = "run_cmd"]
    /\ UNCHANGED <<beside_speech, loop, reply_wav>>

\* tts.py:24, 26, 29
SayWritten ==
    /\ speaking.web = "run_cmd"
    /\ reply_wav' = "web"
    /\ speaking' = [speaking EXCEPT !.web = "play_wav"]
    /\ UNCHANGED <<beside_speech, loop, says>>

\* tts.py:29-30, web.py:46  the handler answers {"status": "ok"}, or the
\* engine or the playback raised and the request fails
SayLeaves ==
    /\ speaking.web \in {"run_cmd", "play_wav"}
    /\ speaking' = [speaking EXCEPT !.web = "out"]
    /\ UNCHANGED <<beside_speech, loop, reply_wav, says>>

\* ------------------------------------------------------------ specification
Next ==
    \/ Main
    \/ RunIterate
    \/ ListenPushToTalk
    \/ KeyWaitReturns
    \/ KeyWaitFails
    \/ ListenUnavailable
    \/ ModelCreated
    \/ ModelFails
    \/ OpenStream
    \/ OpenStreamFails
    \/ StartStream
    \/ StartStreamFails
    \/ Callback
    \/ WakeWordFires
    \/ PushToTalkFires
    \/ NoTrigger
    \/ PredictFails
    \/ IsPressedFails
    \/ RecordOk
    \/ RecordFails
    \/ TranscribeOk
    \/ TranscribeFails
    \/ RouteOk
    \/ RouteFails
    \/ SpeakOk
    \/ SpeakFails
    \/ HandleException
    \/ ApologyOk
    \/ ApologyFails
    \/ Tick
    \/ KeyPress
    \/ KeyRelease
    \/ ReadTranscript
    \/ ReadResponse

Spec == Init /\ [][Next]_vars

\* The turn thread runs whenever it is not blocked, and a call of tts.speak
\* returns or raises: the handler of Brain.run is not left half-way.
FairSpec ==
    /\ Spec
    /\ WF_vars(HandleException)
    /\ WF_vars(ApologyOk \/ ApologyFails)

\* one iteration of the loop of wake.py:39-49
WakeLoopStep ==
    \/ WakeWordFires
    \/ PushToTalkFires
    \/ NoTrigger
    \/ PredictFails
    \/ IsPressedFails

\* The driver goes on calling _callback while the stream is active, and the
\* turn thread, woken by q.get, does its iteration.
WakeFairSpec ==
    /\ Spec
    /\ WF_vars(Callback)
    /\ WF_vars(WakeLoopStep)

\* handle_command is called with some text, under some device map; the loop
\* is as it is before main() runs
RouterInit ==
    /\ USE_PUSH_TO_TALK = FALSE
    /\ openwakeword = TRUE
    /\ tts_engine = TRUE
    /\ pc = "main"
    /\ since_LAST_TRIGGER = MaxElapsed
    /\ key_pressed = FALSE
    /\ q = <<>>
    /\ stream = "none"
    /\ leaked = 0
    /\ produced = 0
    /\ scored = 0
    /\ turn = 0
    /\ last_transcript = 0
    /\ last_response = 0
    /\ pre_turn = <<0, 0>>
    /\ exc = "none"
    /\ fail_step = "none"
    /\ apologies = 0
    /\ apology_failed = FALSE
    /\ log = {}
    /\ steps = <<>>
    /\ triggers = <<>>
    /\ web_started = FALSE
    /\ r_pc = "idle"
    /\ r_transcript = 0
    /\ seen = <<0, 0>>
    /\ text \in Texts
    /\ DEVICE_IDS \in DeviceMaps
    /\ h_pc = "handle_command"
    /\ room = <<>>
    /\ device_id = None
    /\ calls = <<>>
    /\ response = <<>>
    /\ AudioIdle
    /\ ChatIdle
    /\ status = 0
    /\ SpeechIdle

RouterNext ==
    \/ DescribeMatch
    \/ ArmMatch
    \/ NoMatch
    \/ UnknownDevice
    \/ SnapshotOk
    \/ SnapshotFails
    \/ AnalyzeOk
    \/ AnalyzeFails
    \/ ArmOk
    \/ ArmNotFound
    \/ ArmFails
    \/ ChatOk
    \/ ChatFails

RouterSpec == RouterInit /\ [][RouterNext]_vars

\* the loop as it is before main() runs, in wake-word mode
LoopAtStart ==
    /\ USE_PUSH_TO_TALK = FALSE
    /\ openwakeword = TRUE
    /\ tts_engine = TRUE
    /\ pc = "main"
    /\ since_LAST_TRIGGER = MaxElapsed
    /\ key_pressed = FALSE
    /\ q = <<>>
    /\ stream = "none"
    /\ leaked = 0
    /\ produced = 0
    /\ scored = 0
    /\ turn = 0
    /\ last_transcript = 0
    /\ last_response = 0
    /\ pre_turn = <<0, 0>>
    /\ exc = "none"
    /\ fail_step = "none"
    /\ apologies = 0
    /\ apology_failed = FALSE
    /\ log = {}
    /\ steps = <<>>
    /\ triggers = <<>>
    /\ web_started = FALSE
    /\ r_pc = "idle"
    /\ r_transcript = 0
    /\ seen = <<0, 0>>

\* record_seconds is called, and play_wav with the path it returns
AudioInit ==
    /\ LoopAtStart
    /\ RouterIdle
    /\ ChatIdle
    /\ status = 0
    /\ SpeechIdle
    /\ seconds \in 1..MaxTenths
    /\ samplerate \in SampleRates
    /\ channels \in {1, 2}
    /\ a_pc = "record_seconds"
    /\ frames = 0
    /\ wav = NoFile
    /\ decoded = 0

AudioNext ==
    \/ RecReturns
    \/ RecFails
    \/ WriteWav
    \/ PlayWav

AudioSpec == AudioInit /\ [][AudioNext]_vars

\* llm.chat is called, and the model answers
ChatInit ==
    /\ LoopAtStart
    /\ RouterIdle
    /\ AudioIdle
    /\ status = 0
    /\ SpeechIdle
    /\ reply \in Replies
    /\ system \in Systems
    /\ payload = {}
    /\ c_pc = "chat"
    /\ c_result = "none"
    /\ c_calls = <<>>

ChatNext ==
    \/ ChatPost
    \/ ChatPostFails
    \/ ChatReturnsText
    \/ ChatRoutesTool
    \/ ToolUnknown
    \/ ToolArgsError
    \/ ToolNoDevice
    \/ ToolSnapshotOk
    \/ ToolSnapshotFails
    \/ ToolAnalyzeOk
    \/ ToolAnalyzeFails
    \/ ToolArmReturns
    \/ ToolArmFails

ChatSpec == ChatInit /\ [][ChatNext]_vars

\* either entry to the intents: handle_command with a text, or llm.chat with
\* the model's answer
IntentsInit == RouterInit \/ ChatInit

IntentsNext == RouterNext \/ ChatNext

IntentsSpec == IntentsInit /\ [][IntentsNext]_vars

\* The turn thread, in push-to-talk mode, has its first response and is at
\* brain.py:29; the web thread runs.
SpeechInit ==
    /\ USE_PUSH_TO_TALK = TRUE
    /\ openwakeword = TRUE
    /\ tts_engine = TRUE
    /\ pc = "speak"
    /\ since_LAST_TRIGGER = MaxElapsed
    /\ key_pressed = FALSE
    /\ q = <<>>
    /\ stream = "none"
    /\ leaked = 0
    /\ produced = 0
    /\ scored = 0
    /\ turn = 1
    /\ last_transcript = 1
    /\ last_response = 1
    /\ pre_turn = <<0, 0>>
    /\ exc = "none"
    /\ fail_step = "none"
    /\ apologies = 0
    /\ apology_failed = FALSE
    /\ log = {"recorded", "transcript", "response"}
    /\ steps = <<"listen", "record", "transcribe", "route">>
    /\ triggers = <<[kind |-> "push_to_talk", gap |-> MaxElapsed, first |-> TRUE,
                     n |-> 1, key |-> TRUE]>>
    /\ web_started = TRUE
    /\ r_pc = "idle"
    /\ r_transcript = 0
    /\ seen = <<0, 0>>
    /\ RouterIdle
    /\ AudioIdle
    /\ ChatIdle
    /\ status = 0
    /\ SpeechIdle

SpeechNext ==
    \/ SpeakEnters
    \/ SpeakWritten
    \/ SpeakPlayed
    \/ SpeakRaises
    \/ HandleException
    \/ SayEnters
    \/ SayWritten
    \/ SayLeaves

SpeechSpec == SpeechInit /\ [][SpeechNext]_vars

\* ------------------------------------------------------------------ claims
\* the places of the turn thread inside wake.listen_for_wake
ListenStates == {"listen", "wait_key", "microphone_stream", "stream_start", "q_get"}

\* C1: no two trigger events returned by listen_for_wake, in push-to-talk or
\* in wake-word mode, are less than the debounce window (1.0 s) apart.
C1_TriggersDebounced ==
    \A i \in 1..Len(triggers) :
        triggers[i].first \/ triggers[i].gap >= DebounceWindow

\* C2: Brain.run never ends because of a turn failure: whatever step raised,
\* the exception does not leave the loop and control comes back to the top of
\* the loop, where the next trigger is awaited.
C2_LoopSurvivesFailure ==
    /\ [](pc # "crashed")
    /\ \A step \in {"listen", "record", "transcribe", "route", "speak"} :
           (pc = "except" /\ fail_step = step) ~> (pc = "run")

C2_Witness == pc = "run" /\ fail_step = "route" /\ apology_failed /\ turn = 1

\* C3: when a turn fails, last_transcript and last_response are what they
\* were before the turn.
C3_FailedTurnKeepsState ==
    exc # "none" => <<last_transcript, last_response>> = pre_turn

\* C4: the status reader never returns a transcript of one turn together with
\* a response of another turn.
C4_ReaderSeesOneTurn ==
    (r_pc = "idle" /\ seen[1] # 0 /\ seen[2] # 0) => seen[1] = seen[2]

\* C5: whenever control is outside listen_for_wake (it returned or raised),
\* every microphone stream opened for an episode has been stopped and closed.
C5_StreamClosedOnExit ==
    pc \notin ListenStates => OpenStreams = 0

\* C6: while record_seconds has the microphone, the detector holds no stream
\* on it: the two never hold the device at once.
C6_MicrophoneExclusive ==
    pc = "record" => OpenStreams = 0

\* C7: in wake-word mode without the scoring capability the error is raised
\* before the loop of Brain.run starts: no iteration is ever begun and the
\* error is never caught inside the loop.
C7_UnavailableStopsStartup ==
    (pc # "main" /\ ~USE_PUSH_TO_TALK /\ ~openwakeword) =>
        (turn = 0 /\ exc = "none")

\* C8: in wake-word mode without openwakeword, listen_for_wake raises before
\* any microphone stream is opened or started: when the error propagates no
\* stream is held and no chunk was produced.
C8_FailFastBeforeOpen ==
    exc = "DetectorUnavailable" => (OpenStreams = 0 /\ stream = "none" /\ q = <<>>)

C8_Witness == exc = "DetectorUnavailable" /\ pc = "except" /\ turn = 2

\* C9: a failed turn gets exactly one apology attempt; whether the attempt
\* returns or raises, nothing leaves Brain.run and control is back at the top
\* of the loop right after it.
C9_OneApology ==
    /\ pc # "crashed"
    /\ apologies <= 1
    /\ (exc = "none" => apologies = 0)
    /\ (apologies = 1 => pc = "run")
    /\ ((pc = "run" /\ exc # "none") => apologies = 1)

C9_Witness == pc = "run" /\ exc # "none" /\ apologies = 1 /\ apology_failed

\* C10 as claimed: the turn fails in tts.speak for want of an engine, the
\* apology fails too, and then both failures have a log record and the loop
\* goes on.
C10_BothFailuresLogged ==
    (fail_step = "speak" /\ ~tts_engine /\ apology_failed) =>
        (pc = "run" /\ "error" \in log /\ "apology_error" \in log)

\* C10 as amended: the turn fails in tts.speak for want of an engine, the
\* apology fails too; the turn failure has a log record, the apology failure
\* is dropped without one, and the loop goes on.
C10_TurnFailureLoggedApologySilent ==
    (fail_step = "speak" /\ ~tts_engine /\ apology_failed) =>
        (pc = "run" /\ "error" \in log /\ "apology_error" \notin log)

C10_Witness ==
    fail_step = "speak" /\ ~tts_engine /\ apology_failed /\ pc = "run"

\* the wake-word path of listen_for_wake: its places from microphone_stream on
StreamStates == {"microphone_stream", "stream_start", "q_get"}

\* C11: in push-to-talk mode listen_for_wake opens no microphone stream,
\* no chunk is produced or dequeued, and model.predict is never called.
C11_PushToTalkConsumesNothing ==
    (pc # "main" /\ USE_PUSH_TO_TALK) =>
        /\ pc \notin StreamStates
        /\ OpenStreams = 0
        /\ q = <<>>
        /\ produced = 0
        /\ scored = 0

C11_Witness ==
    /\ USE_PUSH_TO_TALK
    /\ pc = "record"
    /\ triggers # <<>>
    /\ triggers[1].kind = "push_to_talk"
    /\ triggers[1].n = 2

\* a step of the wake-word loop that takes a chunk and gets its score
ScoredStep ==
    /\ pc = "q_get"
    /\ q # <<>>
    /\ Len(q') < Len(q)
    /\ exc' # "ScoreError"

\* the step returns one more WakeWord event
WakeWordEmitted ==
    /\ pc' = "record"
    /\ triggers' # <<>>
    /\ triggers'[1].kind = "wakeword"
    /\ triggers'[1].n = (IF triggers = <<>> THEN 1 ELSE triggers[1].n + 1)

\* C12 as claimed: every chunk taken with a score greater than or equal to
\* the threshold while the debounce condition holds yields exactly one
\* WakeWord event.
C12_AtLeastThresholdFires ==
    [][(ScoredStep /\ Head(q) >= Threshold /\ Debounced(since_LAST_TRIGGER))
           => WakeWordEmitted]_vars

\* C12 as amended: every chunk taken with a score strictly greater than the
\* threshold while the debounce condition holds yields exactly one WakeWord
\* event, and no other chunk (one scoring exactly the threshold included)
\* yields a WakeWord event.
C12_AboveThresholdFires ==
    [][ScoredStep =>
           (WakeWordEmitted <=>
                (Head(q) > Threshold /\ Debounced(since_LAST_TRIGGER)))]_vars

C12_Witness ==
    /\ pc = "record"
    /\ since_LAST_TRIGGER = 0
    /\ triggers # <<>>
    /\ triggers[1].kind = "wakeword"
    /\ triggers[1].n = 2

\* C13: when, in one iteration, the score is above the threshold, the key is
\* down and the debounce condition holds, the event returned is WakeWord.
C13_WakeWordWinsTie ==
    [][(/\ ScoredStep
        /\ Head(q) > Threshold
        /\ key_pressed
        /\ Debounced(since_LAST_TRIGGER))
           => (pc' = "record" /\ triggers' # <<>>
               /\ triggers'[1].kind = "wakeword")]_vars

C13_Witness ==
    /\ pc = "record"
    /\ since_LAST_TRIGGER = 0
    /\ triggers # <<>>
    /\ triggers[1].kind = "wakeword"
    /\ triggers[1].key

\* C14: in wake-word mode no trigger of either kind is returned within the
\* debounce window of the trigger before it: the time between them is more
\* than the window.
C14_SharedDebounce ==
    (pc # "main" /\ ~USE_PUSH_TO_TALK) =>
        \A i \in 1..Len(triggers) :
            ~triggers[i].first => triggers[i].gap > DebounceWindow

C14_Witness ==
    /\ ~USE_PUSH_TO_TALK
    /\ pc = "record"
    /\ triggers # <<>>
    /\ triggers[1].kind = "push_to_talk"
    /\ triggers[1].n = 2

\* brain.py:22-29  the steps of run_once, in the order of the code
Order == <<"listen", "record", "transcribe", "route", "speak">>

IsPrefix(s, t) ==
    /\ Len(s) <= Len(t)
    /\ \A i \in 1..Len(s) : s[i] = t[i]

\* C15: the steps of a turn run in the order await-trigger, record,
\* transcribe, route, speak, each at most once, and a turn's trigger wait
\* starts only when the turn before it has completed or aborted.
C15_StepsInOrder ==
    /\ IsPrefix(steps, Order)
    /\ (pc \in ListenStates => steps = <<>>)
    /\ (pc = "record" => steps = <<"listen">>)
    /\ (pc = "transcribe" => steps = <<"listen", "record">>)
    /\ (pc = "route" => steps = <<"listen", "record", "transcribe">>)
    /\ (pc = "speak" => steps = <<"listen", "record", "transcribe", "route">>)
    /\ (pc = "run" => (turn = 0 \/ steps = Order \/ exc # "none"))

C15_Witness == pc = "run" /\ steps = Order /\ turn = 2 /\ exc = "none"

\* C16: when a step of a turn raises, that step is not called again and no
\* later step of the turn runs: control goes to the handler and then to the
\* top of the loop, where the next step is the trigger wait of a new turn.
C16_NoRetry ==
    exc # "none" =>
        /\ pc \in {"except", "apology", "run"}
        /\ IsPrefix(steps, Order)
        /\ steps # <<>>
        /\ steps[Len(steps)] = fail_step

C16_Witness ==
    /\ pc = "run"
    /\ fail_step = "transcribe"
    /\ steps = <<"listen", "record", "transcribe">>
    /\ apologies = 1

\* C17: after a successful turn last_transcript is the transcript of that
\* turn and last_response is the response to that transcript.
C17_SuccessfulTurnStored ==
    (pc = "run" /\ turn > 0 /\ exc = "none") =>
        (last_transcript = turn /\ last_response = turn)

C17_Witness ==
    pc = "run" /\ exc = "none" /\ turn = 2 /\ last_response = 2

\* the text has the pattern "<verb> (.+?) camera", whatever the case of its
\* letters
Matches(t, verbs) ==
    \E i, j \in 1..Len(t) :
        /\ i + 2 <= j
        /\ Lower(t[i]) \in verbs
        /\ Lower(t[j]) \in CameraWords

\* the room of the pattern handle_command dispatches on
MatchedRoom ==
    IF Matches(text, DescribeWords)
    THEN Search(Lowered(text), DescribeWords).group
    ELSE Search(Lowered(text), ArmWords).group

Functions == {calls[i].fn : i \in 1..Len(calls)}

\* C18: for a text that has the describe or the arm pattern with a room that
\* is not a key of DEVICE_IDS, handle_command makes no call of scrypted, vlm
\* or llm, does not raise and returns "Unknown device for <room>".
C18_UnknownDeviceNoCall ==
    (/\ h_pc # "idle"
     /\ Matches(text, DescribeWords) \/ Matches(text, ArmWords)
     /\ MatchedRoom \notin DOMAIN DEVICE_IDS)
        => /\ calls = <<>>
           /\ h_pc # "raised"
           /\ h_pc \notin {"analyze_image", "chat"}
           /\ (h_pc = "returned" =>
                   response = <<"Unknown device for">> \o MatchedRoom)

C18_Witness ==
    /\ h_pc = "returned"
    /\ DOMAIN DEVICE_IDS = {<<"Kitchen">>}
    /\ response = <<"Unknown device for", "kitchen">>
    /\ calls = <<>>

\* C19: handle_command dispatches on the two patterns, matched whatever the
\* case of the letters: a text with the describe pattern gets a snapshot and
\* an image analysis, also when it has the arm pattern; a text with the arm
\* pattern only gets an arm request; llm.chat is called if and only if the
\* text has neither pattern.
C19_DispatchOrder ==
    LET d == Matches(text, DescribeWords)
        a == Matches(text, ArmWords)
        known == h_pc = "returned" /\ response[1] # "Unknown device for"
    IN  /\ d => /\ h_pc \notin {"arm", "chat"}
                /\ Functions \subseteq {"scrypted.snapshot", "vlm.analyze_image"}
                /\ known => (/\ Len(calls) = 2
                             /\ calls[1].fn = "scrypted.snapshot"
                             /\ calls[2].fn = "vlm.analyze_image")
        /\ (~d /\ a) => /\ h_pc \notin {"describe", "analyze_image", "chat"}
                        /\ Functions \subseteq {"scrypted.arm"}
                        /\ known => Len(calls) = 1
        /\ (~d /\ ~a) => /\ h_pc \notin {"describe", "analyze_image", "arm"}
                         /\ Functions \subseteq {"llm.chat"}
                         /\ (h_pc \in {"returned", "raised"} =>
                                 calls = <<[fn |-> "llm.chat", arg |-> text]>>)

C19_Witness ==
    /\ h_pc = "returned"
    /\ Matches(text, DescribeWords)
    /\ Matches(text, ArmWords)
    /\ text # Lowered(text)
    /\ Len(calls) = 2
    /\ calls[1].fn = "scrypted.snapshot"

\* C20 as claimed: every chunk the callback put on the queue is dequeued and
\* scored once, and none is left on the queue when the episode ends.
C20_EveryChunkScoredOnce ==
    [][/\ (stream = "active" => produced = scored + Len(q))
       /\ ((stream = "active" /\ stream' = "none") => produced = scored + 1)]_vars

\* C20 as amended: every chunk the callback put on the queue is either still
\* on the queue or was dequeued and scored once, never twice.
C20_ChunkScoredAtMostOnce ==
    /\ (stream = "active" => produced = scored + Len(q))
    /\ (stream # "active" => (produced = 0 /\ scored = 0 /\ q = <<>>))

C20_Witness == pc = "q_get" /\ scored = 1 /\ Len(q) = 1

\* C21: record_seconds asks the device for exactly duration * samplerate
\* frames and writes them as 16-bit PCM, and play_wav of the file decodes,
\* for a mono recording, duration * samplerate samples.
C21_RoundTrip ==
    /\ (a_pc \in {"wave_write", "play_wav", "played"} =>
            10 * frames = seconds * samplerate)
    /\ (a_pc \in {"play_wav", "played"} => wav.sampwidth = 2)
    /\ ((a_pc = "played" /\ channels = 1) =>
            10 * decoded = seconds * samplerate)

\* scrypted.arm was called by handle_command, by handle_tool
CommandArmed == calls # <<>> /\ calls[1].fn = "scrypted.arm" /\ h_pc \in {"returned", "raised"}
ToolArmed == c_calls = <<"scrypted.arm">> /\ c_pc \in {"returned", "raised"}

\* C22: scrypted.arm returns False exactly for status 404, raises for every
\* other error status and returns True otherwise; handle_command and
\* handle_tool answer "Unable to arm" for False and "Armed" for True, and
\* never "Armed" after a 404.
C22_ArmNotFoundIsFalse ==
    LET error == status >= 400 /\ status < 600
    IN  /\ CommandArmed =>
            /\ (status = 404 => h_pc = "returned" /\ response = <<"Unable to arm">>)
            /\ ((error /\ status # 404) => h_pc = "raised")
            /\ ((status # 0 /\ ~error) => h_pc = "returned" /\ response = <<"Armed">>)
        /\ ToolArmed =>
            /\ (status = 404 => c_pc = "returned" /\ c_result = "Unable to arm")
            /\ ((error /\ status # 404) => c_pc = "raised")
            /\ ((status # 0 /\ ~error) => c_pc = "returned" /\ c_result = "Armed")

C22_Witness ==
    /\ ToolArmed
    /\ c_pc = "returned"
    /\ status = 404
    /\ c_result = "Unable to arm"

\* C23: llm.chat returns the model's text as it is, except when the text is a
\* JSON object with both a tool and an args field: then, and only then, it
\* is routed to intents.handle_tool, whose result is returned.
C23_ToolAndArgsRouted ==
    LET both == reply.json = "dict" /\ {"tool", "args"} \subseteq reply.keys
    IN  /\ (c_pc \in {"handle_tool", "tool_analyze"} => both)
        /\ (c_pc = "returned" =>
                IF both THEN c_result # "text"
                ELSE c_result = "text" /\ c_calls = <<>>)

\* a step in which listen_for_wake returns a trigger
TriggerReturned ==
    /\ pc \in ListenStates
    /\ pc' = "record"
    /\ triggers' # <<>>
    /\ triggers'[1].n = (IF triggers = <<>> THEN 1 ELSE triggers[1].n + 1)

\* C24: _LAST_TRIGGER is written only in the step in which listen_for_wake
\* returns a trigger, in either mode, and is then the time of that step: the
\* time since _LAST_TRIGGER is 0 after such a step and never gets smaller in
\* any other step (an iteration that does not fire, an episode that ends in
\* an exception, the other steps of the turn).
C24_LastTriggerFrame ==
    [][/\ TriggerReturned => since_LAST_TRIGGER' = 0
       /\ ~TriggerReturned => since_LAST_TRIGGER' >= since_LAST_TRIGGER]_vars

C24_Witness ==
    /\ pc = "except"
    /\ exc = "ScoreError"
    /\ triggers # <<>>
    /\ triggers[1].kind = "wakeword"
    /\ since_LAST_TRIGGER = MaxElapsed

\* C26: in wake-word mode, when the key is down, more than the debounce
\* window has passed since the last trigger and a chunk is queued or still
\* to come, listen_for_wake gets to return a trigger (unless the key is let
\* go, or the scoring or the polling call raises); and it leaves its loop
\* only in a step that takes a chunk from the queue, so with no chunk the
\* key is not seen.
C26_HeldKeyObserved ==
    /\ (/\ pc = "q_get"
        /\ key_pressed
        /\ Debounced(since_LAST_TRIGGER)
        /\ (q # <<>> \/ produced < MaxChunks))
           ~> (~key_pressed \/ pc = "record" \/ exc # "none")
    /\ [][(pc = "q_get" /\ pc' # "q_get") => (q # <<>> /\ q' = <<>>)]_vars

C26_Witness ==
    /\ ~USE_PUSH_TO_TALK
    /\ pc = "record"
    /\ triggers # <<>>
    /\ triggers[1].kind = "push_to_talk"
    /\ triggers[1].key
    /\ triggers[1].n = 1
    /\ since_LAST_TRIGGER = 0

\* C25: the turn thread and the web thread are never both inside tts.speak
\* between the writing of reply.wav and the end of its playback.
C25_OneSpeakAtATime ==
    ~(speaking.turn # "out" /\ speaking.web # "out")

====
